---- MODULE Spec2Model ----
(***************************************************************************)
(* Model of start.go (fiber): the startup dispatcher App.Start with its    *)
(* helpers startConfigDefault, createListener, printMessages and           *)
(* startupProcess, and the graceful shutdown controller gracefulShutdown.  *)
(***************************************************************************)
EXTENDS Integers, Sequences, FiniteSets, TLC

VARIABLES
    addr,        \* Start's addr argument (any)
    config,      \* Start's variadic config argument: <<>> or <<StartConfig>>
    cfg,         \* the resolved StartConfig (Start's local cfg)
    tlsConfig,   \* Start's local tlsConfig (*tls.Config)
    ln,          \* Start's local ln (net.Listener)
    pc,          \* position of the Start call
    result,      \* how the Start call ended
    calls,       \* the calls Start has made so far, in order
    open,        \* listeners bound by this process and not closed
    preforkArgs, \* arguments handed to app.prefork
    numHooks,    \* number of registered on-listen hooks (app.hooks)
    hookIdx,     \* on-listen hooks that have run to completion
    mutex,       \* app.mutex is held
    tree,        \* state of the request-dispatch tree
    signalled,   \* a graceful signal was delivered to the process
    tlsErr,      \* the err of Start's TLS assembly (LoadX509KeyPair, ReadFile)
    hookArg,     \* the *tls.Config cfg.TLSConfigFunc was invoked with
    preforkRet,  \* the error app.prefork returned ("none": not returned)
    beforeServeRet, \* the error cfg.BeforeServeFunc returned ("none": not returned)
    serveRet,    \* the error app.server.Serve returned ("none": not returned)
    spPc,        \* position of each concurrent caller of startupProcess
    spHook,      \* on-listen hooks each concurrent caller has run
    gsPc,        \* position of the gracefulShutdown task
    gsCfg,       \* the cfg argument of gracefulShutdown
    ctxDone,     \* the ctx argument of gracefulShutdown is done
    clock,       \* seconds since timeoutCtx was created
    drainEnd,    \* clock value at which app.Shutdown returned (-1: not yet)
    drainErr,    \* the error app.Shutdown returned ("none": not returned)
    gsPath,      \* branch of the select that was taken
    onErrCalls,  \* errors OnShutdownError was invoked with, in order
    exitCode     \* os.Exit status of the process (-1: still running)

startVars == <<addr, config, cfg, tlsConfig, ln, pc, result, calls, open,
               preforkArgs, numHooks, hookIdx, mutex, tree, signalled,
               tlsErr, hookArg, preforkRet, beforeServeRet, serveRet,
               spPc, spHook>>
retVars == <<beforeServeRet, serveRet>>
concVars == <<spPc, spHook>>
gsVars == <<gsPc, gsCfg, ctxDone, clock, drainEnd, drainErr, gsPath, onErrCalls,
            exitCode>>
vars == <<startVars, retVars, concVars, gsVars>>

----------------------------------------------------------------------------
(* Bounds *)
MaxHooks == 2
MaxClock == 12
NumCallers == 2

(* Program constants *)
DefaultGracefulTimeout == 10      \* 10 * time.Second, in seconds
NetworkTCP == "tcp"
NetworkTCP4 == "tcp4"
NetworkTCP6 == "tcp6"
ErrGracefulTimeout == "ErrGracefulTimeout"

----------------------------------------------------------------------------
(* StartConfig *)

ZeroConfig ==
    [ListenerNetwork |-> "", CertFile |-> "", CertKeyFile |-> "",
     CertClientFile |-> "", GracefulSignals |-> <<>>, GracefulTimeout |-> 0,
     TLSConfigFunc |-> FALSE, ListenerAddrFunc |-> FALSE,
     BeforeServeFunc |-> FALSE, DisableStartupMessage |-> FALSE,
     EnablePrefork |-> FALSE, EnablePrintRoutes |-> FALSE,
     OnShutdownError |-> "nil"]

\* variant: a non-positive GracefulTimeout is replaced by the default too
startConfigDefault_NonPositiveTimeout(config_) ==
    IF Len(config_) < 1
    THEN [ZeroConfig EXCEPT !.GracefulTimeout = DefaultGracefulTimeout,
                            !.GracefulSignals = <<"os.Interrupt">>,
                            !.ListenerNetwork = NetworkTCP4,
                            !.OnShutdownError = "log.Fatalf"]
    ELSE LET c0 == config_[1] IN
         [c0 EXCEPT !.GracefulTimeout =
                        IF c0.GracefulTimeout <= 0 THEN DefaultGracefulTimeout
                        ELSE c0.GracefulTimeout,
                    !.GracefulSignals =
                        IF Len(c0.GracefulSignals) < 1 THEN <<"os.Interrupt">>
                        ELSE c0.GracefulSignals,
                    !.ListenerNetwork =
                        IF c0.ListenerNetwork = "" THEN NetworkTCP4
                        ELSE c0.ListenerNetwork,
                    !.OnShutdownError =
                        IF c0.OnShutdownError = "nil" THEN "log.Fatalf"
                        ELSE c0.OnShutdownError]

\* OnShutdownError values: "nil", "log.Fatalf" (the default closure), "user"
startConfigDefault(config_) ==
    IF Len(config_) < 1
    THEN [ZeroConfig EXCEPT !.GracefulTimeout = DefaultGracefulTimeout,
                            !.GracefulSignals = <<"os.Interrupt">>,
                            !.ListenerNetwork = NetworkTCP4,
                            !.OnShutdownError = "log.Fatalf"]
    ELSE LET c0 == config_[1]
             c1 == IF c0.GracefulTimeout = 0
                   THEN [c0 EXCEPT !.GracefulTimeout = DefaultGracefulTimeout]
                   ELSE c0
             c2 == IF Len(c1.GracefulSignals) < 1
                   THEN [c1 EXCEPT !.GracefulSignals = <<"os.Interrupt">>]
                   ELSE c1
             c3 == IF c2.ListenerNetwork = ""
                   THEN [c2 EXCEPT !.ListenerNetwork = NetworkTCP4]
                   ELSE c2
             c4 == IF c3.OnShutdownError = "nil"
                   THEN [c3 EXCEPT !.OnShutdownError = "log.Fatalf"]
                   ELSE c3
         IN  c4

----------------------------------------------------------------------------
(* tls.Config and net.Listener values *)

NilTLS ==
    [nil |-> TRUE, MinVersion |-> "", Certificates |-> <<>>,
     ClientAuth |-> "NoClientCert", ClientCAs |-> ""]

NilListener ==
    [nil |-> TRUE, origin |-> "", network |-> "", address |-> "", tls |-> NilTLS]

\* the tls.Config a caller may already have put on a listener it supplies
CallerTLS ==
    [nil |-> FALSE, MinVersion |-> "VersionTLS13", Certificates |-> <<"callerCert">>,
     ClientAuth |-> "NoClientCert", ClientCAs |-> ""]

SuppliedListener(t) ==
    [nil |-> FALSE, origin |-> "supplied", network |-> "tcp4",
     address |-> "127.0.0.1:9090", tls |-> t]

AddrInputs ==
    { [type |-> "string", str |-> ":8080", ln |-> NilListener],
      [type |-> "net.Listener", str |-> "", ln |-> SuppliedListener(NilTLS)],
      [type |-> "net.Listener", str |-> "", ln |-> SuppliedListener(CallerTLS)],
      [type |-> "int", str |-> "", ln |-> NilListener] }

\* the partial configurations given to Start
StartConfigInputs ==
    { [ZeroConfig EXCEPT !.ListenerNetwork = n, !.CertFile = cf, !.CertKeyFile = kf,
                         !.CertClientFile = ccf, !.TLSConfigFunc = tf,
                         !.ListenerAddrFunc = af, !.BeforeServeFunc = bf,
                         !.DisableStartupMessage = dm, !.EnablePrefork = pf,
                         !.EnablePrintRoutes = pr] :
        n \in {"", NetworkTCP, NetworkTCP6}, cf \in {"", "cert.pem"},
        kf \in {"", "key.pem"}, ccf \in {"", "ca.pem"},
        tf \in BOOLEAN, af \in BOOLEAN, bf \in BOOLEAN, dm \in BOOLEAN,
        pf \in BOOLEAN, pr \in BOOLEAN }

NoPreforkArgs == [addr |-> "", tlsConfig |-> NilTLS, cfg |-> ZeroConfig]
NoResult == [kind |-> "running", err |-> "nil"]
Return(e) == [kind |-> "return", err |-> e]
Panic(e) == [kind |-> "panic", err |-> e]

----------------------------------------------------------------------------
(* Start: TLS assembly (start.go 145-174) *)

Alive == exitCode = -1

\* the guard of the "Configure TLS" block
tlsRequested(c) == c.CertFile # "" /\ c.CertKeyFile # ""

\* variant: the client CA pool is set but ClientAuth is left at its zero value
assembleTLS_NoClientAuth(c) ==
    [nil |-> FALSE, MinVersion |-> "VersionTLS12", Certificates |-> <<c.CertFile>>,
     ClientAuth |-> "NoClientCert",
     ClientCAs |-> IF c.CertClientFile # "" THEN c.CertClientFile ELSE ""]

\* tls.Config built from the loaded key pair, then the client CA pool
assembleTLS(c) ==
    LET base == [nil |-> FALSE, MinVersion |-> "VersionTLS12",
                 Certificates |-> <<c.CertFile>>,
                 ClientAuth |-> "NoClientCert", ClientCAs |-> ""]
    IN  IF c.CertClientFile # ""
        THEN [base EXCEPT !.ClientAuth = "RequireAndVerifyClientCert",
                          !.ClientCAs = c.CertClientFile]
        ELSE base

\* variant: the os.ReadFile error is not returned
ConfigureTLS_IgnoreReadError ==
    /\ Alive /\ pc = "Start"
    /\ \E loadOk \in BOOLEAN, readOk \in BOOLEAN :
        LET c == startConfigDefault(config) IN
        /\ cfg' = c
        /\ IF tlsRequested(c)
           THEN IF ~loadOk
                THEN /\ calls' = calls \o <<"LoadX509KeyPair">>
                     /\ tlsConfig' = NilTLS
                     /\ tlsErr' = "tls: cannot load TLS key pair"
                     /\ result' = Return("tls: cannot load TLS key pair")
                     /\ pc' = "done"
                ELSE /\ calls' = calls \o
                          (IF c.CertClientFile # ""
                           THEN <<"LoadX509KeyPair", "ReadFile">>
                           ELSE <<"LoadX509KeyPair">>)
                     /\ tlsConfig' = assembleTLS(c)
                     /\ tlsErr' = IF c.CertClientFile # "" /\ ~readOk
                                  THEN "ReadFile error" ELSE "nil"
                     /\ result' = result
                     /\ pc' = "TLSConfigFunc"
           ELSE /\ calls' = calls
                /\ tlsConfig' = NilTLS
                /\ tlsErr' = "nil"
                /\ result' = result
                /\ pc' = "TLSConfigFunc"
    /\ UNCHANGED <<addr, config, ln, open, preforkArgs, numHooks, hookIdx,
                   mutex, tree, signalled, hookArg, preforkRet, retVars,
                   concVars, gsVars>>

\* loadOk: tls.LoadX509KeyPair succeeds; readOk: os.ReadFile succeeds
ConfigureTLS ==
    /\ Alive /\ pc = "Start"
    /\ \E loadOk \in BOOLEAN, readOk \in BOOLEAN :
        LET c == startConfigDefault(config) IN
        /\ cfg' = c
        /\ IF tlsRequested(c)
           THEN IF ~loadOk
                THEN /\ calls' = calls \o <<"LoadX509KeyPair">>
                     /\ tlsConfig' = NilTLS
                     /\ tlsErr' = "tls: cannot load TLS key pair"
                     /\ result' = Return("tls: cannot load TLS key pair")
                     /\ pc' = "done"
                ELSE IF c.CertClientFile # "" /\ ~readOk
                THEN /\ calls' = calls \o <<"LoadX509KeyPair", "ReadFile">>
                     /\ tlsConfig' = [assembleTLS(c) EXCEPT !.ClientAuth = "NoClientCert",
                                                            !.ClientCAs = ""]
                     /\ tlsErr' = "ReadFile error"
                     /\ result' = Return("ReadFile error")
                     /\ pc' = "done"
                ELSE /\ calls' = calls \o
                          (IF c.CertClientFile # ""
                           THEN <<"LoadX509KeyPair", "ReadFile">>
                           ELSE <<"LoadX509KeyPair">>)
                     /\ tlsConfig' = assembleTLS(c)
                     /\ tlsErr' = "nil"
                     /\ result' = result
                     /\ pc' = "TLSConfigFunc"
           ELSE /\ calls' = calls
                /\ tlsConfig' = NilTLS
                /\ tlsErr' = "nil"
                /\ result' = result
                /\ pc' = "TLSConfigFunc"
    /\ UNCHANGED <<addr, config, ln, open, preforkArgs, numHooks, hookIdx,
                   mutex, tree, signalled,
                   hookArg, preforkRet, retVars, concVars, gsVars>>

\* what a user TLSConfigFunc may do to the *tls.Config it is given
TLSHookEffects == {"none", "NoClientCert"}

applyTLSHook(t, effect) ==
    IF t.nil \/ effect = "none" THEN t
    ELSE [t EXCEPT !.ClientAuth = "NoClientCert", !.ClientCAs = ""]

\* variant: cfg.TLSConfigFunc is only invoked with a non-nil tls.Config
TLSConfigFunc_SkipNil ==
    /\ Alive /\ pc = "TLSConfigFunc"
    /\ IF cfg.TLSConfigFunc /\ ~tlsConfig.nil
       THEN \E effect \in {"none", "NoClientCert"} :
              /\ hookArg' = tlsConfig
              /\ tlsConfig' = [tlsConfig EXCEPT
                                 !.ClientAuth = IF effect = "none" THEN @
                                                ELSE "NoClientCert",
                                 !.ClientCAs = IF effect = "none" THEN @ ELSE ""]
              /\ calls' = Append(calls, "TLSConfigFunc")
       ELSE UNCHANGED <<tlsConfig, calls, hookArg>>
    /\ pc' = "switch"
    /\ UNCHANGED <<addr, config, cfg, ln, result, open, preforkArgs, numHooks,
                   hookIdx, mutex, tree, signalled, tlsErr, preforkRet,
                   retVars, concVars, gsVars>>

\* start.go 176-178
TLSConfigFunc ==
    /\ Alive /\ pc = "TLSConfigFunc"
    /\ IF cfg.TLSConfigFunc
       THEN \E effect \in TLSHookEffects :
              /\ hookArg' = tlsConfig
              /\ tlsConfig' = applyTLSHook(tlsConfig, effect)
              /\ calls' = Append(calls, "TLSConfigFunc")
       ELSE UNCHANGED <<tlsConfig, calls, hookArg>>
    /\ pc' = "switch"
    /\ UNCHANGED <<addr, config, cfg, ln, result, open, preforkArgs, numHooks,
                   hookIdx, mutex, tree, signalled,
                   tlsErr, preforkRet, retVars, concVars, gsVars>>

----------------------------------------------------------------------------
(* createListener (start.go 231-246) *)

\* bindOk: tls.Listen / net.Listen succeeds.  The result of the call:
\* the listener and error returned, whether ListenerAddrFunc was invoked,
\* and whether the call panicked (listener.Addr() on a nil listener).
createListener(a, t, c, bindOk) ==
    LET listener == IF bindOk
                    THEN [nil |-> FALSE, origin |-> "created",
                          network |-> c.ListenerNetwork, address |-> a,
                          tls |-> t]
                    ELSE NilListener
        err == IF bindOk THEN "nil" ELSE "listen error"
    IN  [listener |-> listener, err |-> err,
         hook |-> c.ListenerAddrFunc /\ ~listener.nil,
         panic |-> c.ListenerAddrFunc /\ listener.nil]

\* lnMetadata(network, ln) is defined outside start.go: per its contract it
\* derives the address and tls.Config from the supplied listener
lnMetadata(network, l) == [addr |-> l.address, tlsConfig |-> l.tls]

----------------------------------------------------------------------------
(* Start: the switch on addr's type (start.go 186-212) *)

SwitchStringPrefork ==
    /\ Alive /\ pc = "switch"
    /\ addr.type = "string" /\ cfg.EnablePrefork
    /\ preforkArgs' = [addr |-> addr.str, tlsConfig |-> tlsConfig, cfg |-> cfg]
    /\ calls' = Append(calls, "prefork")
    /\ pc' = "prefork"
    /\ UNCHANGED <<addr, config, cfg, tlsConfig, ln, result, open, numHooks,
                   hookIdx, mutex, tree, signalled,
                   tlsErr, hookArg, preforkRet, retVars, concVars, gsVars>>

SwitchStringListen ==
    /\ Alive /\ pc = "switch"
    /\ addr.type = "string" /\ ~cfg.EnablePrefork
    /\ \E bindOk \in BOOLEAN :
        LET r == createListener(addr.str, tlsConfig, cfg, bindOk) IN
        /\ calls' = calls \o <<"createListener">>
                          \o (IF r.hook THEN <<"ListenerAddrFunc">> ELSE <<>>)
        /\ open' = IF r.listener.nil THEN open ELSE open \cup {r.listener}
        /\ IF r.panic
           THEN /\ result' = Panic("nil pointer dereference")
                /\ pc' = "done"
                /\ ln' = ln
           ELSE IF r.err # "nil"
           THEN /\ result' = Return(r.err)
                /\ pc' = "done"
                /\ ln' = r.listener
           ELSE /\ result' = result
                /\ pc' = "startupProcess"
                /\ ln' = r.listener
    /\ UNCHANGED <<addr, config, cfg, tlsConfig, preforkArgs, numHooks, hookIdx,
                   mutex, tree, signalled,
                   tlsErr, hookArg, preforkRet, retVars, concVars, gsVars>>

SwitchListenerPrefork ==
    /\ Alive /\ pc = "switch"
    /\ addr.type = "net.Listener" /\ cfg.EnablePrefork
    /\ LET m == lnMetadata(cfg.ListenerNetwork, addr.ln) IN
       preforkArgs' = [addr |-> m.addr, tlsConfig |-> m.tlsConfig, cfg |-> cfg]
    /\ calls' = calls \o <<"lnMetadata", "prefork">>
    /\ pc' = "prefork"
    /\ UNCHANGED <<addr, config, cfg, tlsConfig, ln, result, open, numHooks,
                   hookIdx, mutex, tree, signalled,
                   tlsErr, hookArg, preforkRet, retVars, concVars, gsVars>>

\* variant: a supplied listener skips startupProcess
SwitchListener_SkipStartup ==
    /\ Alive /\ pc = "switch"
    /\ addr.type = "net.Listener" /\ ~cfg.EnablePrefork
    /\ ln' = addr.ln
    /\ pc' = "printMessages"
    /\ UNCHANGED <<addr, config, cfg, tlsConfig, result, calls, open, preforkArgs,
                   numHooks, hookIdx, mutex, tree, signalled,
                   tlsErr, hookArg, preforkRet, retVars, concVars, gsVars>>

\* variant: a supplied listener is wrapped with the assembled tls.Config
SwitchListener_WrapTLS ==
    /\ Alive /\ pc = "switch"
    /\ addr.type = "net.Listener" /\ ~cfg.EnablePrefork
    /\ ln' = IF tlsConfig.nil THEN addr.ln ELSE [addr.ln EXCEPT !.tls = tlsConfig]
    /\ pc' = "startupProcess"
    /\ UNCHANGED <<addr, config, cfg, tlsConfig, result, calls, open, preforkArgs,
                   numHooks, hookIdx, mutex, tree, signalled,
                   tlsErr, hookArg, preforkRet, retVars, concVars, gsVars>>


SwitchListener ==
    /\ Alive /\ pc = "switch"
    /\ addr.type = "net.Listener" /\ ~cfg.EnablePrefork
    /\ ln' = addr.ln
    /\ pc' = "startupProcess"
    /\ UNCHANGED <<addr, config, cfg, tlsConfig, result, calls, open, preforkArgs,
                   numHooks, hookIdx, mutex, tree, signalled,
                   tlsErr, hookArg, preforkRet, retVars, concVars, gsVars>>

\* variant: the default case returns nil instead of panicking
SwitchDefault_ReturnNil ==
    /\ Alive /\ pc = "switch"
    /\ addr.type \notin {"string", "net.Listener"}
    /\ result' = Return("nil")
    /\ pc' = "done"
    /\ UNCHANGED <<addr, config, cfg, tlsConfig, ln, calls, open, preforkArgs,
                   numHooks, hookIdx, mutex, tree, signalled,
                   tlsErr, hookArg, preforkRet, retVars, concVars, gsVars>>


SwitchDefault ==
    /\ Alive /\ pc = "switch"
    /\ addr.type \notin {"string", "net.Listener"}
    /\ result' = Panic("start: invalid handler")
    /\ pc' = "done"
    /\ UNCHANGED <<addr, config, cfg, tlsConfig, ln, calls, open, preforkArgs,
                   numHooks, hookIdx, mutex, tree, signalled,
                   tlsErr, hookArg, preforkRet, retVars, concVars, gsVars>>

\* app.prefork returns; its result is Start's result (start.go 193, 206)
PreforkErrors == {"nil", "prefork error"}

\* variant: only a non-nil prefork error is returned, nil falls through
PreforkReturn_FallThrough ==
    /\ Alive /\ pc = "prefork"
    /\ \E e \in PreforkErrors :
        /\ preforkRet' = e
        /\ IF e # "nil"
           THEN result' = Return(e) /\ pc' = "done"
           ELSE result' = result /\ pc' = "startupProcess"
    /\ UNCHANGED <<addr, config, cfg, tlsConfig, ln, calls, open, preforkArgs,
                   numHooks, hookIdx, mutex, tree, signalled,
                   tlsErr, hookArg, retVars, concVars, gsVars>>

PreforkReturn ==
    /\ Alive /\ pc = "prefork"
    /\ \E e \in PreforkErrors :
        /\ preforkRet' = e
        /\ result' = Return(e)
    /\ pc' = "done"
    /\ UNCHANGED <<addr, config, cfg, tlsConfig, ln, calls, open, preforkArgs,
                   numHooks, hookIdx, mutex, tree, signalled,
                   tlsErr, hookArg, retVars, concVars, gsVars>>

----------------------------------------------------------------------------
(* startupProcess (start.go 261-271) *)

\* variant: the error of executeOnListenHooks is dropped and startup goes on
ExecuteOnListenHook_DropError ==
    /\ Alive /\ pc = "startupProcess" /\ hookIdx < numHooks
    /\ \E ok \in BOOLEAN :
        /\ calls' = Append(calls, "onListenHook")
        /\ IF ok
           THEN /\ hookIdx' = hookIdx + 1
                /\ UNCHANGED <<pc, mutex>>
           ELSE /\ pc' = "buildTree"
                /\ mutex' = TRUE
                /\ hookIdx' = hookIdx
    /\ UNCHANGED <<addr, config, cfg, tlsConfig, ln, result, open, preforkArgs,
                   numHooks, tree, signalled, tlsErr, hookArg, preforkRet,
                   retVars, concVars, gsVars>>

\* app.hooks.executeOnListenHooks: the hooks run in order, the first error
\* ends the loop and startupProcess panics with it
ExecuteOnListenHook ==
    /\ Alive /\ pc = "startupProcess" /\ hookIdx < numHooks
    /\ \E ok \in BOOLEAN :
        /\ calls' = Append(calls, "onListenHook")
        /\ IF ok
           THEN /\ hookIdx' = hookIdx + 1
                /\ UNCHANGED <<pc, result>>
           ELSE /\ result' = Panic("on-listen hook error")
                /\ pc' = "done"
                /\ hookIdx' = hookIdx
    /\ UNCHANGED <<addr, config, cfg, tlsConfig, ln, open, preforkArgs, numHooks,
                   mutex, tree, signalled, gsVars,
                   tlsErr, hookArg, preforkRet, retVars, concVars>>

MutexLock ==
    /\ Alive /\ pc = "startupProcess" /\ hookIdx = numHooks
    /\ ~mutex
    /\ mutex' = TRUE
    /\ pc' = "buildTree"
    /\ UNCHANGED <<addr, config, cfg, tlsConfig, ln, result, calls, open,
                   preforkArgs, numHooks, hookIdx, tree, signalled,
                   tlsErr, hookArg, preforkRet, retVars, concVars, gsVars>>

BuildTreeBegin ==
    /\ Alive /\ pc = "buildTree"
    /\ tree' = "building"
    /\ calls' = Append(calls, "buildTree")
    /\ pc' = "inBuildTree"
    /\ UNCHANGED <<addr, config, cfg, tlsConfig, ln, result, open, preforkArgs,
                   numHooks, hookIdx, mutex, signalled,
                   tlsErr, hookArg, preforkRet, retVars, concVars, gsVars>>

BuildTreeEnd ==
    /\ Alive /\ pc = "inBuildTree"
    /\ tree' = "built"
    /\ pc' = "Unlock"
    /\ UNCHANGED <<addr, config, cfg, tlsConfig, ln, result, calls, open,
                   preforkArgs, numHooks, hookIdx, mutex, signalled,
                   tlsErr, hookArg, preforkRet, retVars, concVars, gsVars>>

MutexUnlock ==
    /\ Alive /\ pc = "Unlock"
    /\ mutex' = FALSE
    /\ pc' = "printMessages"
    /\ UNCHANGED <<addr, config, cfg, tlsConfig, ln, result, calls, open,
                   preforkArgs, numHooks, hookIdx, tree, signalled,
                   tlsErr, hookArg, preforkRet, retVars, concVars, gsVars>>

----------------------------------------------------------------------------
(* Start: printMessages, BeforeServeFunc, Serve (start.go 217-227, 248-258) *)

printMessages(c) ==
    (IF ~c.DisableStartupMessage THEN <<"startupMessage">> ELSE <<>>)
    \o (IF c.EnablePrintRoutes THEN <<"printRoutesMessage">> ELSE <<>>)

PrintMessages ==
    /\ Alive /\ pc = "printMessages"
    /\ calls' = calls \o printMessages(cfg)
    /\ pc' = "BeforeServeFunc"
    /\ UNCHANGED <<addr, config, cfg, tlsConfig, ln, result, open, preforkArgs,
                   numHooks, hookIdx, mutex, tree, signalled,
                   tlsErr, hookArg, preforkRet, retVars, concVars, gsVars>>

BeforeServeErrors == {"nil", "before serve error"}

\* variant: the error of cfg.BeforeServeFunc is not checked
BeforeServeFunc_IgnoreError ==
    /\ Alive /\ pc = "BeforeServeFunc"
    /\ IF cfg.BeforeServeFunc
       THEN \E e \in {"nil", "before serve error"} :
              /\ calls' = Append(calls, "BeforeServeFunc")
              /\ beforeServeRet' = e
       ELSE UNCHANGED <<calls, beforeServeRet>>
    /\ pc' = "Serve"
    /\ UNCHANGED <<addr, config, cfg, tlsConfig, ln, result, open, preforkArgs,
                   numHooks, hookIdx, mutex, tree, signalled, tlsErr, hookArg,
                   preforkRet, serveRet, concVars, gsVars>>


BeforeServeFunc ==
    /\ Alive /\ pc = "BeforeServeFunc"
    /\ IF cfg.BeforeServeFunc
       THEN \E e \in BeforeServeErrors :
              /\ calls' = Append(calls, "BeforeServeFunc")
              /\ beforeServeRet' = e
              /\ IF e # "nil"
                 THEN /\ result' = Return(e)
                      /\ pc' = "done"
                 ELSE /\ result' = result
                      /\ pc' = "Serve"
       ELSE /\ pc' = "Serve"
            /\ UNCHANGED <<calls, result, beforeServeRet>>
    /\ UNCHANGED <<addr, config, cfg, tlsConfig, ln, open, preforkArgs, numHooks,
                   hookIdx, mutex, tree, signalled, gsVars,
                   tlsErr, hookArg, preforkRet, serveRet, concVars>>

\* app.server.Serve(ln) is entered: the accept loop runs on ln
Serve ==
    /\ Alive /\ pc = "Serve"
    /\ calls' = Append(calls, "Serve")
    /\ pc' = "serving"
    /\ UNCHANGED <<addr, config, cfg, tlsConfig, ln, result, open, preforkArgs,
                   numHooks, hookIdx, mutex, tree, signalled,
                   tlsErr, hookArg, preforkRet, retVars, concVars, gsVars>>

ServeErrors == {"nil", "serve error"}

\* Serve returns; its error is Start's result
ServeReturn ==
    /\ Alive /\ pc = "serving"
    /\ \E e \in ServeErrors :
        /\ serveRet' = e
        /\ result' = Return(e)
    /\ pc' = "done"
    /\ UNCHANGED <<addr, config, cfg, tlsConfig, ln, calls, open, preforkArgs,
                   numHooks, hookIdx, mutex, tree, signalled,
                   tlsErr, hookArg, preforkRet, beforeServeRet, concVars, gsVars>>

\* One of cfg.GracefulSignals is delivered.  The signal.NotifyContext call and
\* the go app.gracefulShutdown(ctx, cfg) statement are commented out
\* (start.go 180-184): no context observes the signal and no task is started.
Signal ==
    /\ Alive /\ ~signalled
    /\ pc \notin {"done"}
    /\ signalled' = TRUE
    /\ UNCHANGED <<addr, config, cfg, tlsConfig, ln, pc, result, calls, open,
                   preforkArgs, numHooks, hookIdx, mutex, tree,
                   tlsErr, hookArg, preforkRet, retVars, concVars, gsVars>>

----------------------------------------------------------------------------
(* gracefulShutdown (start.go 522-540) *)

\* the signal context handed to gracefulShutdown is cancelled
CtxCancel ==
    /\ Alive /\ gsPc # "notStarted" /\ ~ctxDone
    /\ ctxDone' = TRUE
    /\ signalled' = TRUE
    /\ UNCHANGED <<addr, config, cfg, tlsConfig, ln, pc, result, calls, open,
                   preforkArgs, numHooks, hookIdx, mutex, tree, tlsErr, hookArg,
                   preforkRet, retVars, concVars, gsPc, gsCfg, clock, drainEnd,
                   drainErr, gsPath, onErrCalls, exitCode>>

\* variant: the task does not wait for ctx.Done()
GsAwaitDone_NoWait ==
    /\ Alive /\ gsPc = "awaitDone"
    /\ clock' = 0
    /\ gsPc' = "select"
    /\ UNCHANGED <<startVars, gsCfg, ctxDone, drainEnd, drainErr, gsPath,
                   onErrCalls, exitCode>>

\* <-ctx.Done(), then context.WithTimeout(Background, cfg.GracefulTimeout)
GsAwaitDone ==
    /\ Alive /\ gsPc = "awaitDone" /\ ctxDone
    /\ clock' = 0
    /\ gsPc' = "select"
    /\ UNCHANGED <<startVars, gsCfg, ctxDone, drainEnd, gsPath, onErrCalls,
                   exitCode, drainErr>>

\* a second passes while the task is between WithTimeout and the select, or
\* blocked inside app.Shutdown
Tick ==
    /\ Alive /\ gsPc \in {"select", "Shutdown"}
    /\ clock < MaxClock
    /\ clock' = clock + 1
    /\ UNCHANGED <<startVars, gsPc, gsCfg, ctxDone, drainEnd, gsPath, onErrCalls,
                   exitCode, drainErr>>

\* timeoutCtx.Done() is ready: the deadline has passed
timeoutDone(now, timeout) == now >= timeout

\* what calling cfg.OnShutdownError(err) does to the process:
\* the default closure is log.Fatalf, which ends the process with status 1
onShutdownErrorExits(c) == c.OnShutdownError = "log.Fatalf"

\* variant: the timeout case lacks os.Exit(1) and goes on to drain
GsSelectTimeout_NoExit ==
    /\ Alive /\ gsPc = "select"
    /\ timeoutDone(clock, gsCfg.GracefulTimeout)
    /\ gsPath' = "timeout"
    /\ onErrCalls' = IF gsCfg.OnShutdownError # "nil"
                     THEN Append(onErrCalls, ErrGracefulTimeout)
                     ELSE onErrCalls
    /\ gsPc' = "Shutdown"
    /\ UNCHANGED <<startVars, gsCfg, ctxDone, clock, drainEnd, drainErr, exitCode>>

\* case <-timeoutCtx.Done()
GsSelectTimeout ==
    /\ Alive /\ gsPc = "select"
    /\ timeoutDone(clock, gsCfg.GracefulTimeout)
    /\ gsPath' = "timeout"
    /\ onErrCalls' = IF gsCfg.OnShutdownError # "nil"
                     THEN Append(onErrCalls, ErrGracefulTimeout)
                     ELSE onErrCalls
    /\ exitCode' = 1
    /\ gsPc' = "exited"
    /\ UNCHANGED <<startVars, gsCfg, ctxDone, clock, drainEnd, drainErr>>

\* default: app.Shutdown() is called and blocks until the drain is over
GsSelectDefault ==
    /\ Alive /\ gsPc = "select"
    /\ ~timeoutDone(clock, gsCfg.GracefulTimeout)
    /\ gsPath' = "drain"
    /\ gsPc' = "Shutdown"
    /\ UNCHANGED <<startVars, gsCfg, ctxDone, clock, drainEnd, onErrCalls,
                   exitCode, drainErr>>

ShutdownErrors == {"nil", "shutdown error"}

\* variant: the default branch always reaches os.Exit(0)
drainExitCode_AlwaysZero(c, err) == 0

\* the exit status of the default branch once app.Shutdown returned err
drainExitCode(c, err) ==
    IF err # "nil" /\ c.OnShutdownError # "nil" /\ onShutdownErrorExits(c)
    THEN 1 ELSE 0

\* app.Shutdown() returns err
GsShutdownReturn ==
    /\ Alive /\ gsPc = "Shutdown"
    /\ \E err \in ShutdownErrors :
        /\ onErrCalls' = IF err # "nil" /\ gsCfg.OnShutdownError # "nil"
                         THEN Append(onErrCalls, err)
                         ELSE onErrCalls
        /\ exitCode' = drainExitCode(gsCfg, err)
        /\ drainErr' = err
    /\ drainEnd' = clock
    /\ gsPc' = "exited"
    /\ UNCHANGED <<startVars, gsCfg, ctxDone, clock, gsPath>>

\* ShutdownState of the controller
ShutdownState ==
    CASE gsPc \in {"notStarted", "awaitDone"} -> "Running"
      [] gsPc \in {"select", "Shutdown"} -> "DrainRequested"
      [] gsPc = "exited" /\ gsPath = "drain" -> "Drained"
      [] gsPc = "exited" /\ gsPath = "timeout" -> "TimedOut"
      [] OTHER -> "DrainRequested"

----------------------------------------------------------------------------
(* startupProcess called concurrently on one App (start.go 261-271) *)

Callers == 1..NumCallers

SpExecuteOnListenHook(c) ==
    /\ Alive /\ spPc[c] = "startupProcess" /\ spHook[c] < numHooks
    /\ \E ok \in BOOLEAN :
        IF ok
        THEN /\ spHook' = [spHook EXCEPT ![c] = @ + 1]
             /\ spPc' = spPc
        ELSE /\ spPc' = [spPc EXCEPT ![c] = "panicked"]
             /\ spHook' = spHook
    /\ UNCHANGED <<addr, config, cfg, tlsConfig, ln, pc, result, calls, open,
                   preforkArgs, numHooks, hookIdx, mutex, tree, signalled,
                   tlsErr, hookArg, preforkRet, retVars, gsVars>>

\* variant: Lock does not wait for the holder
SpMutexLock_NoWait(c) ==
    /\ Alive /\ spPc[c] = "startupProcess" /\ spHook[c] = numHooks
    /\ mutex' = TRUE
    /\ spPc' = [spPc EXCEPT ![c] = "buildTree"]
    /\ UNCHANGED <<addr, config, cfg, tlsConfig, ln, pc, result, calls, open,
                   preforkArgs, numHooks, hookIdx, tree, signalled,
                   tlsErr, hookArg, preforkRet, retVars, spHook, gsVars>>

\* app.mutex.Lock() blocks while another caller holds the mutex
SpMutexLock(c) ==
    /\ Alive /\ spPc[c] = "startupProcess" /\ spHook[c] = numHooks
    /\ ~mutex
    /\ mutex' = TRUE
    /\ spPc' = [spPc EXCEPT ![c] = "buildTree"]
    /\ UNCHANGED <<addr, config, cfg, tlsConfig, ln, pc, result, calls, open,
                   preforkArgs, numHooks, hookIdx, tree, signalled,
                   tlsErr, hookArg, preforkRet, retVars, spHook, gsVars>>

SpBuildTreeBegin(c) ==
    /\ Alive /\ spPc[c] = "buildTree"
    /\ tree' = "building"
    /\ spPc' = [spPc EXCEPT ![c] = "inBuildTree"]
    /\ UNCHANGED <<addr, config, cfg, tlsConfig, ln, pc, result, calls, open,
                   preforkArgs, numHooks, hookIdx, mutex, signalled,
                   tlsErr, hookArg, preforkRet, retVars, spHook, gsVars>>

SpBuildTreeEnd(c) ==
    /\ Alive /\ spPc[c] = "inBuildTree"
    /\ tree' = "built"
    /\ spPc' = [spPc EXCEPT ![c] = "Unlock"]
    /\ UNCHANGED <<addr, config, cfg, tlsConfig, ln, pc, result, calls, open,
                   preforkArgs, numHooks, hookIdx, mutex, signalled,
                   tlsErr, hookArg, preforkRet, retVars, spHook, gsVars>>

SpMutexUnlock(c) ==
    /\ Alive /\ spPc[c] = "Unlock"
    /\ mutex' = FALSE
    /\ spPc' = [spPc EXCEPT ![c] = "returned"]
    /\ UNCHANGED <<addr, config, cfg, tlsConfig, ln, pc, result, calls, open,
                   preforkArgs, numHooks, hookIdx, tree, signalled,
                   tlsErr, hookArg, preforkRet, retVars, spHook, gsVars>>

----------------------------------------------------------------------------
(* startConfigDefault applied to a partial configuration, and again to its
   own result (start.go 104-136) *)

\* cfg := startConfigDefault(config...)
Resolve ==
    /\ pc = "resolve"
    /\ cfg' = startConfigDefault(config)
    /\ pc' = "resolved"
    /\ UNCHANGED <<addr, config, tlsConfig, ln, result, calls, open,
                   preforkArgs, numHooks, hookIdx, mutex, tree, signalled,
                   tlsErr, hookArg, preforkRet, retVars, concVars, gsVars>>

\* the resolved configuration is given to startConfigDefault again
ResolveAgain ==
    /\ pc = "resolved"
    /\ config' = <<cfg>>
    /\ cfg' = startConfigDefault(<<cfg>>)
    /\ pc' = "resolvedAgain"
    /\ UNCHANGED <<addr, tlsConfig, ln, result, calls, open,
                   preforkArgs, numHooks, hookIdx, mutex, tree, signalled,
                   tlsErr, hookArg, preforkRet, retVars, concVars, gsVars>>

----------------------------------------------------------------------------
(* Specifications *)

\* the partial configurations gracefulShutdown's caller resolves
TimeoutInputs == {0, -1, 1, 3}
ShutdownConfigInputs ==
    { [ZeroConfig EXCEPT !.GracefulTimeout = t, !.OnShutdownError = f] :
        t \in TimeoutInputs, f \in {"nil", "user"} }

\* the partial configurations startConfigDefault is applied to
ResolveInputs ==
    { [ZeroConfig EXCEPT !.GracefulTimeout = t, !.GracefulSignals = g,
                         !.ListenerNetwork = n, !.OnShutdownError = f,
                         !.CertFile = cf, !.EnablePrefork = pf] :
        t \in TimeoutInputs, g \in {<<>>, <<"syscall.SIGTERM">>},
        n \in {"", NetworkTCP, NetworkTCP6}, f \in {"nil", "user"},
        cf \in {"", "cert.pem"}, pf \in BOOLEAN }

StartIdle ==
    /\ cfg = ZeroConfig /\ tlsConfig = NilTLS /\ ln = NilListener
    /\ result = NoResult /\ calls = <<>> /\ open = {}
    /\ preforkArgs = NoPreforkArgs /\ hookIdx = 0
    /\ mutex = FALSE /\ tree = "unbuilt" /\ signalled = FALSE
    /\ tlsErr = "nil" /\ hookArg = NilTLS /\ preforkRet = "none"
    /\ beforeServeRet = "none" /\ serveRet = "none"
    /\ spPc = <<>> /\ spHook = <<>>

GsIdle ==
    /\ ctxDone = FALSE /\ clock = 0 /\ drainEnd = -1 /\ drainErr = "none"
    /\ gsPath = "none"
    /\ onErrCalls = <<>> /\ exitCode = -1

\* a call app.Start(addr, config...)
Init ==
    /\ addr \in AddrInputs
    /\ config \in {<<>>} \cup {<<c>> : c \in StartConfigInputs}
    /\ numHooks \in 0..MaxHooks
    /\ pc = "Start"
    /\ StartIdle
    /\ gsPc = "notStarted" /\ gsCfg = ZeroConfig
    /\ GsIdle

Next ==
    \/ ConfigureTLS \/ TLSConfigFunc
    \/ SwitchStringPrefork \/ SwitchStringListen
    \/ SwitchListenerPrefork \/ SwitchListener \/ SwitchDefault
    \/ PreforkReturn
    \/ ExecuteOnListenHook \/ MutexLock \/ BuildTreeBegin \/ BuildTreeEnd
    \/ MutexUnlock
    \/ PrintMessages \/ BeforeServeFunc \/ Serve \/ ServeReturn
    \/ Signal

Spec == Init /\ [][Next]_vars

\* a task running app.gracefulShutdown(ctx, startConfigDefault(config...))
ShutdownInit ==
    /\ addr \in {a \in AddrInputs : a.type = "string"}
    /\ config \in {<<>>} \cup {<<c>> : c \in ShutdownConfigInputs}
    /\ numHooks = 0
    /\ pc = "idle"
    /\ StartIdle
    /\ gsPc = "awaitDone" /\ gsCfg = startConfigDefault(config)
    /\ GsIdle

ShutdownNext ==
    \/ CtxCancel \/ GsAwaitDone \/ Tick
    \/ GsSelectTimeout \/ GsSelectDefault \/ GsShutdownReturn

ShutdownSpec == ShutdownInit /\ [][ShutdownNext]_vars

\* NumCallers tasks call app.startupProcess() on the same App
ConcInit ==
    /\ addr \in {a \in AddrInputs : a.type = "string"}
    /\ config = <<>>
    /\ numHooks \in 0..MaxHooks
    /\ pc = "idle"
    /\ cfg = ZeroConfig /\ tlsConfig = NilTLS /\ ln = NilListener
    /\ result = NoResult /\ calls = <<>> /\ open = {}
    /\ preforkArgs = NoPreforkArgs /\ hookIdx = 0
    /\ mutex = FALSE /\ tree = "unbuilt" /\ signalled = FALSE
    /\ tlsErr = "nil" /\ hookArg = NilTLS /\ preforkRet = "none"
    /\ beforeServeRet = "none" /\ serveRet = "none"
    /\ spPc = [c \in Callers |-> "startupProcess"]
    /\ spHook = [c \in Callers |-> 0]
    /\ gsPc = "notStarted" /\ gsCfg = ZeroConfig
    /\ GsIdle

ConcNext ==
    \E c \in Callers :
        \/ SpExecuteOnListenHook(c) \/ SpMutexLock(c) \/ SpBuildTreeBegin(c)
        \/ SpBuildTreeEnd(c) \/ SpMutexUnlock(c)

ConcSpec == ConcInit /\ [][ConcNext]_vars

\* startConfigDefault(config...) for every partial configuration
ResolveInit ==
    /\ addr \in {a \in AddrInputs : a.type = "string"}
    /\ config \in {<<>>} \cup {<<c>> : c \in ResolveInputs}
    /\ numHooks = 0
    /\ pc = "resolve"
    /\ StartIdle
    /\ gsPc = "notStarted" /\ gsCfg = ZeroConfig
    /\ GsIdle

ResolveNext == Resolve \/ ResolveAgain

ResolveSpec == ResolveInit /\ [][ResolveNext]_vars

TypeOK ==
    /\ pc \in {"idle", "resolve", "resolved", "resolvedAgain", "Start", "TLSConfigFunc", "switch", "prefork",
               "startupProcess", "buildTree", "inBuildTree", "Unlock",
               "printMessages", "BeforeServeFunc", "Serve", "serving", "done"}
    /\ gsPc \in {"notStarted", "awaitDone", "select", "Shutdown", "exited"}
    /\ hookIdx \in 0..numHooks
    /\ clock \in 0..MaxClock
    /\ exitCode \in {-1, 0, 1}
    /\ tree \in {"unbuilt", "building", "built"}

----------------------------------------------------------------------------
(* Properties *)

Called(name) == \E i \in DOMAIN calls : calls[i] = name
Count(name) == Cardinality({i \in DOMAIN calls : calls[i] = name})

TLSLoadError == "tls: cannot load TLS key pair"
ClientCertLoadError == "ReadFile error"

\* C1: once the signal has arrived, a drain that does not complete within
\* GracefulTimeout loses the race: the task does not go on waiting for
\* app.Shutdown past the deadline, OnShutdownError is invoked exactly once with
\* ErrGracefulTimeout and the process exits with status 1.
C1_TimeoutWinsRace ==
    /\ gsPc = "Shutdown" => clock <= gsCfg.GracefulTimeout
    /\ (gsPc = "exited" /\ (drainEnd = -1 \/ drainEnd > gsCfg.GracefulTimeout))
         => /\ exitCode = 1
            /\ onErrCalls = <<ErrGracefulTimeout>>
            /\ drainEnd = -1

DrainedInTime ==
    gsPc = "exited" /\ drainEnd # -1 /\ drainEnd < gsCfg.GracefulTimeout

\* C2 (as stated): when the drain completes before the timeout the process
\* exits with status 0, and OnShutdownError is invoked only if the drain
\* returned an error, then exactly once with that error.
C2_DrainExitsZero ==
    DrainedInTime =>
        /\ exitCode = 0
        /\ onErrCalls = IF drainErr # "nil" THEN <<drainErr>> ELSE <<>>

\* C2 (amended): as above, except that when the drain returned an error and
\* OnShutdownError is the default closure (log.Fatalf), the callback ends the
\* process with status 1 and os.Exit(0) is not reached.
C2_DrainExit ==
    DrainedInTime =>
        /\ exitCode = IF drainErr # "nil" /\ gsCfg.OnShutdownError = "log.Fatalf"
                      THEN 1 ELSE 0
        /\ onErrCalls = IF drainErr # "nil" THEN <<drainErr>> ELSE <<>>

C2_Witness ==
    /\ DrainedInTime /\ drainErr # "nil"
    /\ gsCfg.OnShutdownError = "log.Fatalf" /\ onErrCalls = <<drainErr>>
    /\ exitCode = 1

\* C3: a Start call that has reached the accept loop has a gracefulShutdown
\* task running beside it.
C3_ControllerAttached ==
    pc = "serving" => gsPc # "notStarted"

StateRank(st) ==
    CASE st = "Running" -> 0
      [] st = "DrainRequested" -> 1
      [] OTHER -> 2

\* C4: the select takes exactly one of its two branches and never the other
\* afterwards, ShutdownState only moves forward and a terminal state is never
\* left, and OnShutdownError is invoked at most once.
C4_OneExitPath ==
    [][ /\ StateRank(ShutdownState) <= StateRank(ShutdownState')
        /\ ShutdownState \in {"Drained", "TimedOut"} => ShutdownState' = ShutdownState
        /\ gsPath # "none" => gsPath' = gsPath
        /\ gsPc' = "exited" => gsPath' \in {"timeout", "drain"}
        /\ exitCode # -1 => exitCode' = exitCode
        /\ Len(onErrCalls') <= 1 ]_vars

C4_Witness ==
    /\ gsPc = "exited" /\ gsPath = "timeout" /\ onErrCalls = <<ErrGracefulTimeout>>
    /\ clock > 0

\* C5: without prefork, app.server.Serve is called only after every on-listen
\* hook has run to completion and buildTree has returned; it is never called
\* while the tree is unbuilt or being built.
C5_ServeAfterStartup ==
    (Called("Serve") \/ pc \in {"Serve", "serving"}) =>
        /\ hookIdx = numHooks
        /\ Count("onListenHook") = numHooks
        /\ Count("buildTree") = 1
        /\ tree = "built"
        /\ ~mutex

C5_Witness ==
    pc = "serving" /\ numHooks > 0 /\ addr.type = "net.Listener"

InvalidAddr == addr.type \notin {"string", "net.Listener"}

NoListenNoServe ==
    /\ open = {} /\ ln.nil
    /\ ~Called("createListener") /\ ~Called("prefork") /\ ~Called("Serve")
    /\ pc \in {"Start", "TLSConfigFunc", "switch", "done"}

\* C6 (as stated): for every configuration, Start with an addr that is neither
\* a string nor a net.Listener ends in the panic: it never returns, never opens
\* a listener, never delegates to prefork and never serves.
C6_InvalidAddrAlwaysPanics ==
    InvalidAddr =>
        /\ NoListenNoServe
        /\ pc = "done" => result.kind = "panic"

\* C6 (amended): the same for every configuration whose TLS assembly does not
\* fail; when the TLS assembly fails Start returns that error (the switch is
\* not reached), still without listening, delegating or serving.
C6_InvalidAddrPanics ==
    InvalidAddr =>
        /\ NoListenNoServe
        /\ pc = "done" =>
             IF tlsErr = "nil"
             THEN result = Panic("start: invalid handler")
             ELSE result = Return(tlsErr)

C6_Witness ==
    /\ InvalidAddr /\ pc = "done" /\ result.kind = "panic"
    /\ ~tlsConfig.nil /\ Called("TLSConfigFunc")

\* C7: when TLS is requested through CertFile/CertKeyFile and one of the two
\* is not configured or the pair does not load, Start fails with the TLS load
\* error and opens no listener.
C7_NoPlaintextFallback ==
    (/\ pc # "Start"
     /\ \/ (cfg.CertFile # "") # (cfg.CertKeyFile # "")
        \/ tlsErr = TLSLoadError)
      => /\ pc = "done"
         /\ result = Return(TLSLoadError)
         /\ open = {}

ClientAuthRequired(t, c) ==
    /\ ~t.nil
    /\ t.MinVersion = "VersionTLS12"
    /\ t.ClientAuth = "RequireAndVerifyClientCert"
    /\ t.ClientCAs = c.CertClientFile

HookLeftTLSAlone == ~Called("TLSConfigFunc") \/ tlsConfig = hookArg

\* C8 (as stated): whenever Start serves on a listener it created while
\* CertClientFile is configured and no TLSConfigFunc altered the tls.Config,
\* the listener requires and verifies client certificates over TLS >= 1.2;
\* a ReadFile error is returned with no listener opened.
C8_ClientFileMeansMTLS ==
    /\ (/\ pc = "serving" /\ ln.origin = "created"
        /\ cfg.CertClientFile # "" /\ HookLeftTLSAlone)
         => ClientAuthRequired(ln.tls, cfg)
    /\ tlsErr = ClientCertLoadError
         => pc = "done" /\ result = Return(tlsErr) /\ open = {}

\* C8 (amended): the same when CertFile and CertKeyFile are configured too;
\* CertClientFile is read only inside the TLS block.
C8_MutualTLS ==
    /\ (/\ pc = "serving" /\ ln.origin = "created"
        /\ cfg.CertClientFile # "" /\ tlsRequested(cfg) /\ HookLeftTLSAlone)
         => ClientAuthRequired(ln.tls, cfg)
    /\ tlsErr = ClientCertLoadError
         => pc = "done" /\ result = Return(tlsErr) /\ open = {}

C8_Witness ==
    /\ pc = "serving" /\ ln.origin = "created"
    /\ cfg.CertClientFile # "" /\ tlsRequested(cfg)
    /\ Called("TLSConfigFunc") /\ tlsConfig = hookArg
    /\ ClientAuthRequired(ln.tls, cfg)

\* C9: with EnablePrefork and a string or net.Listener addr (TLS assembly not
\* failed), Start calls app.prefork exactly once and returns its result; it
\* never calls createListener, startupProcess, printMessages, BeforeServeFunc
\* or Serve.
C9_PreforkDelegates ==
    (pc # "Start" /\ cfg.EnablePrefork /\ ~InvalidAddr /\ tlsErr = "nil") =>
        /\ pc \in {"TLSConfigFunc", "switch", "prefork", "done"}
        /\ pc \in {"prefork", "done"} => Count("prefork") = 1
        /\ pc = "done" => result = Return(preforkRet)
        /\ \A n \in {"createListener", "onListenHook", "buildTree", "startupMessage",
                     "printRoutesMessage", "BeforeServeFunc", "Serve"} : ~Called(n)
        /\ open = {} /\ ln.nil /\ hookIdx = 0 /\ tree = "unbuilt"

C9_Witness ==
    /\ pc = "done" /\ cfg.EnablePrefork /\ addr.type = "net.Listener"
    /\ result = Return("nil") /\ preforkRet = "nil"

\* C10: with a supplied net.Listener and EnablePrefork false, the listener
\* given to Serve is the supplied one, unchanged and not TLS-wrapped, whatever
\* the configuration; createListener is never called.
C10_SuppliedListenerUnmodified ==
    (addr.type = "net.Listener" /\ pc # "Start" /\ ~cfg.EnablePrefork) =>
        /\ ~Called("createListener")
        /\ open = {}
        /\ pc \in {"Serve", "serving"} => ln = addr.ln

C10_Witness ==
    /\ pc = "serving" /\ addr.type = "net.Listener" /\ ~cfg.EnablePrefork
    /\ ~tlsConfig.nil /\ ln = addr.ln /\ ln.tls.nil

LaterSteps ==
    {"onListenHook", "buildTree", "startupMessage", "printRoutesMessage",
     "BeforeServeFunc", "Serve"}

\* tls.Listen / net.Listen returned an error
BindFailed == Called("createListener") /\ open = {}

\* C11: when the bind fails Start returns the bind error, without crashing and
\* without running any later step; ListenerAddrFunc is invoked once per
\* successful bind and never after a failed one.
C11_BindErrorReturned ==
    /\ BindFailed =>
        /\ pc = "done" /\ result = Return("listen error")
        /\ ~Called("ListenerAddrFunc")
        /\ \A n \in LaterSteps : ~Called(n)
    /\ (Called("createListener") /\ ~BindFailed) =>
        Count("ListenerAddrFunc") = IF cfg.ListenerAddrFunc THEN 1 ELSE 0

ResolveInput == IF Len(config) < 1 THEN ZeroConfig ELSE config[1]

PassThroughFields ==
    {"CertFile", "CertKeyFile", "CertClientFile", "TLSConfigFunc",
     "ListenerAddrFunc", "BeforeServeFunc", "DisableStartupMessage",
     "EnablePrefork", "EnablePrintRoutes"}

\* C12: startConfigDefault is total and idempotent: the result has a non-zero
\* GracefulTimeout (10s for 0), non-empty GracefulSignals ({os.Interrupt} for
\* none), a non-empty ListenerNetwork (tcp4 for ""), a non-nil OnShutdownError;
\* non-zero input fields pass through; resolving the result changes nothing.
C12_ResolveTotalIdempotent ==
    /\ pc = "resolved" =>
        /\ cfg.GracefulTimeout = IF ResolveInput.GracefulTimeout = 0
                                 THEN DefaultGracefulTimeout
                                 ELSE ResolveInput.GracefulTimeout
        /\ cfg.GracefulSignals = IF ResolveInput.GracefulSignals = <<>>
                                 THEN <<"os.Interrupt">>
                                 ELSE ResolveInput.GracefulSignals
        /\ cfg.ListenerNetwork = IF ResolveInput.ListenerNetwork = ""
                                 THEN NetworkTCP4
                                 ELSE ResolveInput.ListenerNetwork
        /\ cfg.OnShutdownError = IF ResolveInput.OnShutdownError = "nil"
                                 THEN "log.Fatalf"
                                 ELSE ResolveInput.OnShutdownError
        /\ cfg.GracefulTimeout # 0 /\ cfg.GracefulSignals # <<>>
        /\ cfg.ListenerNetwork # "" /\ cfg.OnShutdownError # "nil"
        /\ \A f \in PassThroughFields : cfg[f] = ResolveInput[f]
    /\ pc = "resolvedAgain" => cfg = config[1]

C12_Witness ==
    /\ pc = "resolvedAgain"
    /\ cfg.GracefulTimeout = -1 /\ cfg.ListenerNetwork = NetworkTCP6
    /\ cfg.OnShutdownError = "log.Fatalf" /\ cfg.GracefulSignals = <<"os.Interrupt">>

\* an on-listen hook was called and did not run to completion
HookFailed == Count("onListenHook") > hookIdx

\* C13: when an on-listen hook (or the tree build) fails after Start created a
\* listener, the listener is closed before Start terminates.
C13_ListenerClosedOnStartupFailure ==
    (HookFailed /\ pc = "done") => open = {}

\* C14 (as stated): when an on-listen hook fails, Start returns the hook's
\* error to its caller and runs no later step.
C14_HookErrorReturned ==
    HookFailed =>
        /\ pc = "done" /\ result = Return("on-listen hook error")
        /\ \A n \in LaterSteps \ {"onListenHook"} : ~Called(n)

\* C14 (amended): when an on-listen hook fails, startupProcess panics with the
\* hook's error, which reaches Start's caller as a panic (Start does not
\* return); no later hook, tree build, diagnostics, BeforeServeFunc or Serve runs.
C14_HookErrorPanics ==
    HookFailed =>
        /\ pc = "done" /\ result = Panic("on-listen hook error")
        /\ Count("onListenHook") = hookIdx + 1
        /\ \A n \in LaterSteps \ {"onListenHook"} : ~Called(n)
        /\ tree = "unbuilt" /\ ~mutex

C14_Witness ==
    /\ HookFailed /\ hookIdx = 0 /\ numHooks > 1
    /\ result.kind = "panic" /\ ln.origin = "created"

\* C15: a BeforeServeFunc error is what Start returns, and Serve is not called;
\* when BeforeServeFunc is unset or returns nil, Serve is called and Start
\* returns what Serve returns.
C15_BeforeServeError ==
    /\ beforeServeRet \notin {"none", "nil"} =>
        /\ pc = "done" /\ result = Return(beforeServeRet)
        /\ ~Called("Serve") /\ serveRet = "none"
    /\ (pc \in {"Serve", "serving"} \/ Called("Serve")) =>
        beforeServeRet = IF cfg.BeforeServeFunc THEN "nil" ELSE "none"
    /\ pc = "serving" => Called("Serve") /\ result = NoResult
    /\ serveRet # "none" =>
        /\ pc = "done" /\ result = Return(serveRet) /\ Count("Serve") = 1

C15_Witness ==
    /\ pc = "done" /\ beforeServeRet = "before serve error"
    /\ result = Return(beforeServeRet) /\ ln.origin = "created"

\* C16: a configured TLSConfigFunc is invoked exactly once per Start whose TLS
\* assembly did not fail, with the assembled tls.Config (nil without TLS),
\* before any listener is bound and before prefork is called; createListener
\* uses the tls.Config the hook was given, with the hook's changes.
C16_TLSHookOnceBeforeBind ==
    /\ pc \in {"Start", "TLSConfigFunc"} =>
        /\ ~Called("TLSConfigFunc") /\ ~Called("createListener")
        /\ ~Called("lnMetadata") /\ ~Called("prefork") /\ open = {}
    /\ (pc \notin {"Start", "TLSConfigFunc"} /\ tlsErr = "nil") =>
        Count("TLSConfigFunc") = IF cfg.TLSConfigFunc THEN 1 ELSE 0
    /\ Called("TLSConfigFunc") =>
        hookArg = IF cfg.CertFile # "" /\ cfg.CertKeyFile # ""
                  THEN [nil |-> FALSE, MinVersion |-> "VersionTLS12",
                        Certificates |-> <<cfg.CertFile>>,
                        ClientAuth |-> IF cfg.CertClientFile # ""
                                       THEN "RequireAndVerifyClientCert"
                                       ELSE "NoClientCert",
                        ClientCAs |-> cfg.CertClientFile]
                  ELSE NilTLS
    /\ \A i, j \in DOMAIN calls :
        (calls[i] = "TLSConfigFunc"
           /\ calls[j] \in {"createListener", "lnMetadata", "prefork"}) => i < j
    /\ \A l \in open : l.tls = tlsConfig
    /\ (Called("prefork") /\ addr.type = "string") => preforkArgs.tlsConfig = tlsConfig

C16_Witness ==
    /\ pc = "serving" /\ Called("TLSConfigFunc") /\ tlsConfig # hookArg
    /\ ln.origin = "created" /\ ln.tls = tlsConfig /\ ln \in open

Terminal == {"Drained", "TimedOut"}

\* C17: until ctx is done gracefulShutdown stays in Running: it has not called
\* app.Shutdown, has not invoked OnShutdownError and has not ended the process;
\* a terminal state is entered only from DrainRequested.
C17_RunningUntilSignal ==
    [][ /\ ~ctxDone' =>
            /\ gsPc' = "awaitDone" /\ ShutdownState' = "Running"
            /\ gsPath' = "none" /\ drainEnd' = -1 /\ drainErr' = "none"
            /\ onErrCalls' = <<>> /\ exitCode' = -1
        /\ (ShutdownState' \in Terminal /\ ShutdownState \notin Terminal) =>
            ShutdownState = "DrainRequested" /\ ctxDone ]_vars

C17_Witness ==
    /\ ctxDone /\ ShutdownState = "Drained" /\ exitCode = 0 /\ drainEnd > 0

InCritical(c) == spPc[c] \in {"buildTree", "inBuildTree", "Unlock"}

\* C18: among concurrent callers of startupProcess at most one is inside
\* buildTree at any time.
C18_BuildTreeExclusive ==
    /\ Cardinality({c \in Callers : spPc[c] = "inBuildTree"}) <= 1
    /\ Cardinality({c \in Callers : InCritical(c)}) <= 1
    /\ mutex <=> \E c \in Callers : InCritical(c)
    /\ tree = "building" <=> \E c \in Callers : spPc[c] = "inBuildTree"

C18_Witness ==
    \E c1, c2 \in Callers :
        /\ c1 # c2 /\ spPc[c1] = "inBuildTree"
        /\ spPc[c2] = "startupProcess" /\ spHook[c2] = numHooks
        /\ tree = "building"

\* C19: the network kind Start hands to app.prefork is tcp4 or tcp6, never tcp.
C19_PreforkSingleStack ==
    Called("prefork") =>
        preforkArgs.cfg.ListenerNetwork \in {NetworkTCP4, NetworkTCP6}

\* C20: when LoadX509KeyPair or ReadFile fails, Start returns that error before
\* TLSConfigFunc, any bind, prefork, the on-listen hooks, the diagnostics,
\* BeforeServeFunc and Serve, whatever addr is and whether or not prefork is on.
C20_TLSFailureFirst ==
    tlsErr # "nil" =>
        /\ pc = "done" /\ result = Return(tlsErr)
        /\ \A i \in DOMAIN calls : calls[i] \in {"LoadX509KeyPair", "ReadFile"}
        /\ open = {} /\ ln.nil /\ preforkArgs = NoPreforkArgs
        /\ hookIdx = 0 /\ tree = "unbuilt" /\ hookArg = NilTLS
        /\ preforkRet = "none" /\ beforeServeRet = "none" /\ serveRet = "none"

C20_Witness ==
    /\ tlsErr = ClientCertLoadError /\ pc = "done"
    /\ cfg.EnablePrefork /\ cfg.TLSConfigFunc /\ addr.type = "net.Listener"
    /\ numHooks > 0

====
